---------------------------- MODULE Spec2Model ----------------------------
(***************************************************************************)
(* Model of the documentation catalogue router (Express + MongoDB).        *)
(*                                                                         *)
(* Two revisions of the router exist in the repository:                    *)
(*   "index"  src/routes/index.js    (merge upsert, live category list,    *)
(*                                    PUT and GET of a document by id)     *)
(*   "part0"  src/unnamed/part_000   (technology tags, overwrite upsert,   *)
(*                                    hardcoded category list)             *)
(* The variable rev says which one is deployed; it never changes.          *)
(*                                                                         *)
(* Every handler is an async function.  The code between two awaits runs   *)
(* without interruption, so each action below is one such stretch: the     *)
(* synchronous prologue of a handler (validation), the connection attempt, *)
(* each database call together with the code that follows it up to the     *)
(* next await, and the close in the finally block.                         *)
(***************************************************************************)
EXTENDS Naturals, Sequences, FiniteSets, TLC

\* ------------------------------------------------------------------ bounds
\* Concurrent requests in flight under SpecRace (Spec serves one at a time).
MaxReq == 2
\* Documents the database holds, all collections together.
MaxStored == 2
\* Length of a submitted subcategories array.
MaxSubs == 2
\* Number of comma-separated segments of a ?categories= query.
MaxQuery == 2
\* Required fields a POST /documentation body leaves out.
MaxMissing == 1

\* ------------------------------------------------------------ JavaScript values
\* A JavaScript value is undefined, a string or an array of strings.
Undef == [u |-> TRUE]
Str(x) == [s |-> x]
Arr(x) == [a |-> x]

IsString(v) == "s" \in DOMAIN v
IsArray(v) == "a" \in DOMAIN v
\* !v is false exactly for these: undefined and the empty string are falsy,
\* every array (the empty one too) is truthy.
Truthy(v) == IF IsString(v) THEN v.s # "" ELSE IsArray(v)

Range(q) == {q[i] : i \in DOMAIN q}
SeqsUpTo(S, n) == UNION {[1..k -> S] : k \in 0..n}

\* The strings used as subcategory / document category names.
Names == {"mongodb", "MongoDB", "mysql"}
\* String.prototype.toLowerCase on the strings of the model.
toLowerCase(x) ==
  CASE x = "MongoDB" -> "mongodb"
    [] x = "Node" -> "node"
    [] OTHER -> x

\* [...new Set(q)]: the distinct elements of q in order of first occurrence.
RECURSIVE Dedup(_)
Dedup(q) ==
  IF q = <<>> THEN <<>>
  ELSE LET init == Dedup(SubSeq(q, 1, Len(q) - 1))
           last == q[Len(q)]
       IN  IF last \in Range(init) THEN init ELSE Append(init, last)

\* Array.prototype.filter
RECURSIVE Filter(_, _)
Filter(q, S) ==
  IF q = <<>> THEN <<>>
  ELSE LET rest == Filter(Tail(q), S)
       IN  IF Head(q) \in S THEN <<Head(q)>> \o rest ELSE rest

\* ----------------------------------------------------------------- state
VARIABLES
  rev,            \* the deployed revision of the router
  categories,     \* collection 'categories': sequence of {name, subcategories}
  documentation,  \* collection 'documentation': sequence of documents
  technologies,   \* collection 'documentation_categories': sequence of {name, label}
  connections,    \* number of MongoClient connections currently open
  req,            \* the requests: slot -> its handler's state
  submitted,      \* history: name -> subcategories the merge upserts answered 200 submitted
  created,        \* history: _id -> the body POST /documentation accepted
  updated         \* history: the _ids a PUT has matched

vars == <<rev, categories, documentation, technologies, connections, req,
          submitted, created, updated>>
stores == <<categories, documentation, technologies>>
history == <<submitted, created, updated>>

Idle == [route |-> "none", pc |-> "idle", body |-> Undef, client |-> "undefined",
         local |-> Undef, resp |-> Undef]

\* The store holds MaxStored documents at most: an insert into a full store
\* rejects, like any database call that fails.
Stored == Len(categories) + Len(documentation) + Len(technologies)

\* A handler is entered in a slot that serves no request.
Free(r) == req[r].pc = "idle"
InFlight(r) == req[r].pc \notin {"idle", "done"}

\* The response is sent (a validation 400, or the 500 of an error caught before
\* the client was opened) and the handler returns: the finally block finds
\* client undefined and awaits nothing.
Reject(r, route, body, resp) ==
  /\ req' = [req EXCEPT ![r] = [route |-> route, pc |-> "done", body |-> body,
                                client |-> "undefined", local |-> Undef, resp |-> resp]]
  /\ UNCHANGED <<rev, stores, connections, history>>

\* The synchronous prologue passed: the handler awaits getMongoClient().
Enter(r, route, body, local) ==
  /\ req' = [req EXCEPT ![r] = [route |-> route, pc |-> "connect", body |-> body,
                                client |-> "undefined", local |-> local, resp |-> Undef]]
  /\ UNCHANGED <<rev, stores, connections, history>>

\* An error thrown after the client was opened: the catch block answers 500 with
\* the error's message, then the finally block runs.
Catch(r, error) ==
  req' = [req EXCEPT ![r].resp = [status |-> 500, error |-> error], ![r].pc = "finally"]

\* An awaited database call rejects.
Throw(r) == Catch(r, "MongoError")

\* The first database call of each route, reached once the client is connected.
FirstCall(route) ==
  CASE route = "POST /add/category (merge)" -> "findOne"
    [] route = "POST /add/category (overwrite)" -> "updateOne"
    [] route = "GET /categories" -> "find"
    [] route = "GET /allCategories" -> "find"
    [] route = "POST /documentation" -> "insertOne"
    [] route = "GET /category (live)" -> "findCategories"
    [] route = "GET /category (hardcoded)" -> "find"
    [] route = "PUT /documentation/:id" -> "updateOne"
    [] route = "GET /documentation/:id" -> "findOne"
    [] route = "POST /category" -> "findOne"

\* getMongoClient(): connect, or throw 'MongoDB connection failed', which the
\* handler's catch turns into 500 with client still undefined.
GetMongoClient(r) ==
  /\ req[r].pc = "connect"
  /\ \/ /\ req' = [req EXCEPT ![r].client = "open",
                              ![r].pc = FirstCall(req[r].route)]
        /\ connections' = connections + 1
     \/ /\ req' = [req EXCEPT ![r].pc = "done",
                      ![r].resp = [status |-> 500, error |-> "MongoDB connection failed"]]
        /\ UNCHANGED connections
  /\ UNCHANGED <<rev, stores, history>>

FinallyMutant(r) ==
  /\ req[r].pc = "finally"
  /\ req' = [req EXCEPT ![r].pc = "done"]
  /\ UNCHANGED <<rev, stores, history, connections>>

\* finally { if (client) await client.close(); }
Finally(r) ==
  /\ req[r].pc = "finally"
  /\ IF req[r].client = "open"
       THEN /\ req' = [req EXCEPT ![r].client = "closed", ![r].pc = "done"]
            /\ connections' = connections - 1
       ELSE /\ req' = [req EXCEPT ![r].pc = "done"]
            /\ UNCHANGED connections
  /\ UNCHANGED <<rev, stores, history>>

\* The response has been delivered: the slot can serve the next request.
Release(r) ==
  /\ req[r].pc = "done"
  /\ req' = [req EXCEPT ![r] = Idle]
  /\ UNCHANGED <<rev, stores, connections, history>>

\* ------------------------------------------------ POST /add/category (merge)
CatNames == {"databases"}
\* Bodies of POST /add/category: name and subcategories may be missing, the
\* name may be empty, subcategories may be a string instead of an array.
CategoryBodies ==
  [name : {Undef, Str("")} \cup {Str(n) : n \in CatNames},
   subcategories : {Undef, Str("mysql")} \cup {Arr(q) : q \in SeqsUpTo(Names, MaxSubs)}]

ValidCategory(body) ==
  /\ Truthy(body.name)
  /\ Truthy(body.subcategories)
  /\ IsArray(body.subcategories)

\* collection.findOne({name}): the first document with that name, or 0 (null).
IndexOf(coll, name) ==
  LET hits == {i \in DOMAIN coll : coll[i].name = name}
  IN  IF hits = {} THEN 0 ELSE CHOOSE i \in hits : \A j \in hits : i <= j

AddCategoryMerge(r) ==
  /\ rev = "index"
  /\ Free(r)
  /\ \E body \in CategoryBodies :
       IF ~ValidCategory(body)
         THEN Reject(r, "POST /add/category (merge)", body,
                     [status |-> 400, error |-> "Invalid category data"])
         ELSE Enter(r, "POST /add/category (merge)", body, Undef)

\* const existingCategory = await categoriesCollection.findOne({ name });
MergeFindOne(r) ==
  /\ req[r].route = "POST /add/category (merge)"
  /\ req[r].pc = "findOne"
  /\ \/ LET i == IndexOf(categories, req[r].body.name.s)
        IN  req' = [req EXCEPT ![r].pc = "write",
                      ![r].local = IF i = 0 THEN Undef ELSE Arr(categories[i].subcategories)]
     \/ Throw(r)
  /\ UNCHANGED <<rev, stores, connections, history>>

\* [...new Set([...existingCategory.subcategories, ...subcategories])]
MergedMutant(existing, subs) == subs
Merged(existing, subs) == Dedup(existing \o subs)

AddedMutant(existing, subs) == subs

\* subcategories.filter(sub => !existingCategory.subcategories.includes(sub))
Added(existing, subs) == Filter(subs, Names \ Range(existing))

\* updateOne({name}, {$set: {subcategories}}): the first document with that
\* name, if there is one now, gets the array.
SetSubcategories(coll, name, subs) ==
  LET i == IndexOf(coll, name)
  IN  IF i = 0 THEN coll ELSE [coll EXCEPT ![i].subcategories = subs]

\* The branch taken on existingCategory: updateOne or insertOne, then res.json.
MergeWrite(r) ==
  /\ req[r].route = "POST /add/category (merge)"
  /\ req[r].pc = "write"
  /\ LET name == req[r].body.name.s
         subs == req[r].body.subcategories.a
         existing == req[r].local
     IN  \/ /\ existing # Undef
            /\ categories' = SetSubcategories(categories, name, Merged(existing.a, subs))
            /\ req' = [req EXCEPT ![r].pc = "finally",
                         ![r].resp = [status |-> 200,
                                      message |-> "Category updated successfully",
                                      addedSubcategories |-> Added(existing.a, subs)]]
            /\ submitted' = [submitted EXCEPT ![name] = @ \cup Range(subs)]
         \/ /\ existing = Undef
            /\ Stored < MaxStored
            /\ categories' = Append(categories, [name |-> name, subcategories |-> subs])
            /\ req' = [req EXCEPT ![r].pc = "finally",
                         ![r].resp = [status |-> 200,
                                      message |-> "Category created successfully",
                                      addedSubcategories |-> subs]]
            /\ submitted' = [submitted EXCEPT ![name] = @ \cup Range(subs)]
         \/ /\ Throw(r)
            /\ UNCHANGED <<categories, submitted>>
  /\ UNCHANGED <<rev, documentation, technologies, connections, created, updated>>

\* -------------------------------------------- POST /add/category (overwrite)
AddCategoryOverwrite(r) ==
  /\ rev = "part0"
  /\ Free(r)
  /\ \E body \in CategoryBodies :
       IF ~ValidCategory(body)
         THEN Reject(r, "POST /add/category (overwrite)", body,
                     [status |-> 400, error |-> "Invalid category data"])
         ELSE Enter(r, "POST /add/category (overwrite)", body, Undef)

UpsertMutant(coll, name, subs) ==
  Append(coll, [name |-> name, subcategories |-> subs])

\* updateOne({name}, {$set: {name, subcategories}}, {upsert: true}) on the
\* collection: the first document with that name gets the array; when there is
\* none, {name, subcategories} is inserted.
Upsert(coll, name, subs) ==
  IF IndexOf(coll, name) = 0
    THEN Append(coll, [name |-> name, subcategories |-> subs])
    ELSE SetSubcategories(coll, name, subs)

\* What updateOne resolves to (the handler ignores it): whether a document
\* matched the filter and whether the $set changed it.
UpdateResult(coll, name, subs) ==
  LET i == IndexOf(coll, name)
  IN  [matchedCount |-> IF i = 0 THEN 0 ELSE 1,
       modifiedCount |-> IF i # 0 /\ coll[i].subcategories # subs THEN 1 ELSE 0]

OverwriteUpdateOne(r) ==
  /\ req[r].route = "POST /add/category (overwrite)"
  /\ req[r].pc = "updateOne"
  /\ LET name == req[r].body.name.s
         subs == req[r].body.subcategories.a
     IN  \/ /\ IndexOf(categories, name) = 0 => Stored < MaxStored
            /\ categories' = Upsert(categories, name, subs)
            /\ req' = [req EXCEPT ![r].pc = "finally",
                         ![r].local = UpdateResult(categories, name, subs),
                         ![r].resp = [status |-> 200,
                                      message |-> "Category updated successfully"]]
         \/ /\ Throw(r)
            /\ UNCHANGED categories
  /\ UNCHANGED <<rev, documentation, technologies, connections, history>>

\* ------------------------------------------- GET /categories, GET /allCategories
GetCategories(r) ==
  /\ rev = "index"
  /\ Free(r)
  /\ Enter(r, "GET /categories", Undef, Undef)

GetAllCategories(r) ==
  /\ rev = "part0"
  /\ Free(r)
  /\ Enter(r, "GET /allCategories", Undef, Undef)

\* db.collection(...).find().toArray(), then res.json(...)
FindAll(r) ==
  /\ req[r].route \in {"GET /categories", "GET /allCategories"}
  /\ req[r].pc = "find"
  /\ \/ req' = [req EXCEPT ![r].pc = "finally",
                  ![r].resp = [status |-> 200,
                               json |-> IF req[r].route = "GET /categories"
                                          THEN categories ELSE technologies]]
     \/ Throw(r)
  /\ UNCHANGED <<rev, stores, connections, history>>

\* ---------------------------------------------------------- POST /category
TechNames == {"Node", "node", "redis"}
TechLabels == {"Node.js", "Redis"}
\* Bodies of POST /category: either field may be missing, the name may be empty
\* or an array (which has no toLowerCase).
TechnologyBodies ==
  [name : {Undef, Str(""), Arr(<<"node">>)} \cup {Str(n) : n \in TechNames},
   label : {Undef} \cup {Str(l) : l \in TechLabels}]

RECURSIVE FirstMissingMutant(_, _)
FirstMissingMutant(body, fields) ==
  IF fields = <<>> THEN ""
  ELSE IF body[Head(fields)] = Undef THEN Head(fields)
  ELSE FirstMissingMutant(body, Tail(fields))

\* for (const field of requiredFields) if (!req.body[field]) return 400:
\* the first field of the list that is missing or falsy, or "" when none is.
RECURSIVE FirstMissing(_, _)
FirstMissing(body, fields) ==
  IF fields = <<>> THEN ""
  ELSE IF ~Truthy(body[Head(fields)]) THEN Head(fields)
  ELSE FirstMissing(body, Tail(fields))

PostCategory(r) ==
  /\ rev = "part0"
  /\ Free(r)
  /\ \E body \in TechnologyBodies :
       LET missing == FirstMissing(body, <<"name", "label">>)
       IN  IF missing # ""
             THEN Reject(r, "POST /category", body,
                         [status |-> 400, error |-> "Missing required field", field |-> missing])
           ELSE IF ~IsString(body.name)
             THEN Reject(r, "POST /category", body,
                         [status |-> 500, error |-> "TypeError"])
             ELSE Enter(r, "POST /category", body,
                        [name |-> toLowerCase(body.name.s), label |-> body.label.s])

DuplicateOfMutant(coll, newCategory) ==
  LET hits == {i \in DOMAIN coll : coll[i].name = newCategory.name}
  IN  IF hits = {} THEN 0 ELSE CHOOSE i \in hits : \A j \in hits : i <= j

\* findOne({$or: [{name: newCategory.name}, {label: newCategory.label}]})
DuplicateOf(coll, newCategory) ==
  LET hits == {i \in DOMAIN coll : \/ coll[i].name = newCategory.name
                                   \/ coll[i].label = newCategory.label}
  IN  IF hits = {} THEN 0 ELSE CHOOSE i \in hits : \A j \in hits : i <= j

TechnologyFindOne(r) ==
  /\ req[r].route = "POST /category"
  /\ req[r].pc = "findOne"
  /\ \/ LET i == DuplicateOf(technologies, req[r].local)
        IN  IF i # 0
              THEN req' = [req EXCEPT ![r].pc = "finally",
                             ![r].resp =
                               [status |-> 409,
                                error |-> IF technologies[i].name = req[r].local.name
                                            THEN "A technology with this name already exists"
                                            ELSE "A technology with this label already exists",
                                existingTechnology |-> technologies[i]]]
              ELSE req' = [req EXCEPT ![r].pc = "insertOne"]
     \/ Throw(r)
  /\ UNCHANGED <<rev, stores, connections, history>>

TechnologyInsertOne(r) ==
  /\ req[r].route = "POST /category"
  /\ req[r].pc = "insertOne"
  /\ \/ /\ Stored < MaxStored
        /\ technologies' = Append(technologies, req[r].local)
        /\ req' = [req EXCEPT ![r].pc = "finally",
                     ![r].resp = [status |-> 201,
                                  message |-> "Technology created successfully",
                                  technology |-> req[r].local]]
     \/ /\ Throw(r)
        /\ UNCHANGED technologies
  /\ UNCHANGED <<rev, categories, documentation, connections, history>>

\* -------------------------------------------------------- POST /documentation
\* Bodies of POST /documentation.  Every field may be missing; the title may be
\* the empty string; tags may be a string instead of an array.
requiredFields == <<"title", "description", "category", "tags", "status">>

DocumentBodies ==
  {b \in [title : {Undef, Str(""), Str("Guide")},
          description : {Undef, Str("Intro")},
          url : {Undef, Str("http://x")},
          category : {Undef, Str("mongodb"), Str("MongoDB")},
          tags : {Undef, Str("db"), Arr(<<"db">>)},
          status : {Undef, Str("published"), Str("draft")}] :
     Cardinality({i \in DOMAIN requiredFields : ~Truthy(b[requiredFields[i]])})
       <= MaxMissing}

NewDocMutant(body) ==
  [title |-> body.title,
   description |-> body.description,
   url |-> body.url,
   category |-> body.category,
   tags |-> body.tags,
   status |-> body.status,
   subcategories |-> Undef]

\* const newDoc = {title, description, url: url || '', category,
\*                 tags: Array.isArray(tags) ? tags : [], status}
NewDoc(body) ==
  [title |-> body.title,
   description |-> body.description,
   url |-> IF Truthy(body.url) THEN body.url ELSE Str(""),
   category |-> body.category,
   tags |-> IF IsArray(body.tags) THEN body.tags ELSE Arr(<<>>),
   status |-> body.status,
   subcategories |-> Undef]

PostDocumentation(r) ==
  /\ Free(r)
  /\ \E body \in DocumentBodies :
       LET missing == FirstMissing(body, requiredFields)
       IN  IF missing # ""
             THEN Reject(r, "POST /documentation", body,
                         [status |-> 400, error |-> "Missing required field", field |-> missing])
             ELSE Enter(r, "POST /documentation", body, NewDoc(body))

\* insertOne(newDoc): the store assigns _id; then 201 with documentId.
DocumentationInsertOne(r) ==
  /\ req[r].route = "POST /documentation"
  /\ req[r].pc = "insertOne"
  /\ \/ /\ Stored < MaxStored
        /\ LET id == Len(documentation) + 1
               doc == [f \in DOMAIN req[r].local \cup {"_id"} |->
                         IF f = "_id" THEN id ELSE req[r].local[f]]
           IN  /\ documentation' = Append(documentation, doc)
               /\ created' = Append(created, req[r].body)
               /\ req' = [req EXCEPT ![r].pc = "finally",
                            ![r].resp = [status |-> 201,
                                         message |-> "Documentation created successfully",
                                         documentId |-> id,
                                         document |-> doc]]
     \/ /\ Throw(r)
        /\ UNCHANGED <<documentation, created>>
  /\ UNCHANGED <<rev, categories, technologies, connections, submitted, updated>>

\* ---------------------------------------------------------------- GET /category
\* ?categories=: absent, empty, a string given by its comma-separated segments,
\* or an array (the parameter repeated), which has no split.
Csv(q) == [csv |-> q]
Queries ==
  {Undef, Str(""), Arr(<<"mongodb", "mysql">>)}
    \cup {Csv(q) : q \in SeqsUpTo(Names, MaxQuery) \ {<<>>}}

\* req.query.categories ? req.query.categories.split(',') : []
Split(query) == IF "csv" \in DOMAIN query THEN query.csv ELSE <<>>

\* categoriesData.reduce((acc, c) => [...acc, ...c.subcategories.map(lower)], [])
RECURSIVE Flatten(_)
Flatten(coll) ==
  IF coll = <<>> THEN <<>>
  ELSE Flatten(SubSeq(coll, 1, Len(coll) - 1))
         \o [i \in DOMAIN coll[Len(coll)].subcategories |->
               toLowerCase(coll[Len(coll)].subcategories[i])]

validCategories ==
  <<"apache", "nodejs", "mongodb", "mysql", "jenkins", "docker", "kubernetes",
    "gitLab", "postgresql", "redis", "python", "java", "php", "nginx">>

ResolveMutant(requested, valid) ==
  IF requested = <<>> THEN valid ELSE requested

\* No filter: every valid category.  Otherwise the requested ones that are valid.
Resolve(requested, valid) ==
  IF requested = <<>> THEN valid ELSE Filter(requested, Range(valid))

\* find({category: {$in: list}, status: "published"}).toArray()
RECURSIVE Published(_, _)
Published(coll, list) ==
  IF coll = <<>> THEN <<>>
  ELSE LET doc == coll[Len(coll)]
           rest == Published(SubSeq(coll, 1, Len(coll) - 1), list)
       IN  IF /\ IsString(doc.category)
              /\ doc.category.s \in Range(list)
              /\ doc.status = Str("published")
             THEN Append(rest, doc) ELSE rest

GetCategoryLive(r) ==
  /\ rev = "index"
  /\ Free(r)
  /\ \E query \in Queries : Enter(r, "GET /category (live)", query, Undef)

\* Load the categories, flatten them, resolve the filter; 400 when none is valid.
CategoryFindCategories(r) ==
  /\ req[r].route = "GET /category (live)"
  /\ req[r].pc = "findCategories"
  /\ \/ LET validSubcategories == Flatten(categories)
            requested == Split(req[r].body)
            subcategories == Resolve(requested, validSubcategories)
        IN  IF IsArray(req[r].body)
              THEN Catch(r, "TypeError")
            ELSE IF requested # <<>> /\ subcategories = <<>>
              THEN req' = [req EXCEPT ![r].pc = "finally",
                             ![r].resp = [status |-> 400, error |-> "Invalid categories",
                                          validSubcategories |-> validSubcategories]]
              ELSE req' = [req EXCEPT ![r].pc = "find",
                             ![r].local = [valid |-> validSubcategories,
                                           list |-> subcategories]]
     \/ Throw(r)
  /\ UNCHANGED <<rev, stores, connections, history>>

GetCategoryHardcoded(r) ==
  /\ rev = "part0"
  /\ Free(r)
  /\ \E query \in Queries :
       LET requested == Split(query)
           list == Resolve(requested, validCategories)
       IN  IF IsArray(query)
             THEN Reject(r, "GET /category (hardcoded)", query,
                         [status |-> 500, error |-> "TypeError"])
           ELSE IF requested # <<>> /\ list = <<>>
             THEN Reject(r, "GET /category (hardcoded)", query,
                         [status |-> 400, error |-> "Invalid categories",
                          validCategories |-> validCategories])
             ELSE Enter(r, "GET /category (hardcoded)", query,
                        [valid |-> validCategories, list |-> list])

\* The documents query of both variants, then res.json({totalDocuments, results}).
CategoryFind(r) ==
  /\ req[r].route \in {"GET /category (live)", "GET /category (hardcoded)"}
  /\ req[r].pc = "find"
  /\ \/ LET documents == Published(documentation, req[r].local.list)
        IN  req' = [req EXCEPT ![r].pc = "finally",
                      ![r].resp = [status |-> 200,
                                   totalDocuments |-> Len(documents),
                                   results |-> documents]]
     \/ Throw(r)
  /\ UNCHANGED <<rev, stores, connections, history>>

\* ------------------------------------------------- PUT, GET /documentation/:id
\* :id is a malformed string or the hex form of an ObjectId.
Oid(n) == [oid |-> n]
IdParams == {Str("42")} \cup {Oid(n) : n \in 1..MaxStored}
isValid(id) == "oid" \in DOMAIN id

\* Bodies of PUT: any of subcategories and status, or nothing at all.
UpdateBodies ==
  [subcategories : {Undef, Arr(<<>>), Arr(<<"MongoDB">>)},
   status : {Undef, Str("archived")}]

\* Object.keys(req.body)
Keys(body) == {f \in DOMAIN body : body[f] # Undef}

PutDocumentation(r) ==
  /\ rev = "index"
  /\ Free(r)
  /\ \E id \in IdParams, body \in UpdateBodies :
       LET b == [id |-> id, body |-> body]
       IN  IF ~isValid(id)
             THEN Reject(r, "PUT /documentation/:id", b,
                         [status |-> 400, error |-> "Invalid document ID format"])
           ELSE IF Keys(body) = {}
             THEN Reject(r, "PUT /documentation/:id", b,
                         [status |-> 400, error |-> "Request body cannot be empty"])
           ELSE Enter(r, "PUT /documentation/:id", b, Undef)

\* req.body.subcategories[0].toLowerCase() evaluates without a TypeError.
HasFirstSubcategory(body) ==
  /\ IsArray(body.subcategories)
  /\ Len(body.subcategories.a) >= 1

\* updateData = {...req.body}; updateData.category = subcategories[0].toLowerCase()
\* applied by $set to the document: the fields given replace the stored ones.
SetFields(doc, body) ==
  [f \in DOMAIN doc |->
     IF f = "category" THEN Str(toLowerCase(body.subcategories.a[1]))
     ELSE IF f \in Keys(body) THEN body[f]
     ELSE doc[f]]

PutUpdateOne(r) ==
  /\ req[r].route = "PUT /documentation/:id"
  /\ req[r].pc = "updateOne"
  /\ LET id == req[r].body.id.oid
         body == req[r].body.body
     IN  IF ~HasFirstSubcategory(body)
           THEN Catch(r, "TypeError") /\ UNCHANGED <<documentation, updated>>
           ELSE \/ /\ id \notin DOMAIN documentation
                   /\ req' = [req EXCEPT ![r].pc = "finally",
                                ![r].resp = [status |-> 404, error |-> "Document not found"]]
                   /\ UNCHANGED <<documentation, updated>>
                \/ /\ id \in DOMAIN documentation
                   /\ documentation' =
                        [documentation EXCEPT ![id] = SetFields(@, body)]
                   /\ updated' = updated \cup {id}
                   /\ req' = [req EXCEPT ![r].pc = "finally",
                                ![r].resp =
                                  [status |-> 200,
                                   message |-> "Document updated successfully",
                                   modifiedCount |->
                                     IF SetFields(documentation[id], body) = documentation[id]
                                       THEN 0 ELSE 1]]
                \/ Throw(r) /\ UNCHANGED <<documentation, updated>>
  /\ UNCHANGED <<rev, categories, technologies, connections, submitted, created>>

GetDocumentation(r) ==
  /\ rev = "index"
  /\ Free(r)
  /\ \E id \in IdParams :
       IF ~isValid(id)
         THEN Reject(r, "GET /documentation/:id", [id |-> id],
                     [status |-> 400, error |-> "Invalid document ID format"])
         ELSE Enter(r, "GET /documentation/:id", [id |-> id], Undef)

FindByIdMutant(coll, id) == IF coll = <<>> THEN Undef ELSE coll[1]

\* findOne({_id: new ObjectId(documentId)}): the document, or null.
FindById(coll, id) == IF id \in DOMAIN coll THEN coll[id] ELSE Undef

\* The document, or 404.
DocumentationFindOne(r) ==
  /\ req[r].route = "GET /documentation/:id"
  /\ req[r].pc = "findOne"
  /\ \/ LET document == FindById(documentation, req[r].body.id.oid)
        IN  IF document # Undef
              THEN req' = [req EXCEPT ![r].pc = "finally",
                             ![r].resp = [status |-> 200, json |-> document]]
              ELSE req' = [req EXCEPT ![r].pc = "finally",
                             ![r].resp = [status |-> 404, error |-> "Document not found"]]
     \/ Throw(r)
  /\ UNCHANGED <<rev, stores, connections, history>>

\* ------------------------------------------------------------ specifications
Revisions == {"index", "part0"}

InitWith(slots) ==
  /\ rev \in Revisions
  /\ categories = <<>>
  /\ documentation = <<>>
  /\ technologies = <<>>
  /\ connections = 0
  /\ req = [r \in slots |-> Idle]
  /\ submitted = [n \in CatNames |-> {}]
  /\ created = <<>>
  /\ updated = {}

\* Requests arrive one after the other: a request is accepted when no other is
\* being served.
Init == InitWith({1})

Next ==
  \/ \E r \in DOMAIN req : AddCategoryMerge(r)
  \/ \E r \in DOMAIN req : MergeFindOne(r)
  \/ \E r \in DOMAIN req : MergeWrite(r)
  \/ \E r \in DOMAIN req : AddCategoryOverwrite(r)
  \/ \E r \in DOMAIN req : OverwriteUpdateOne(r)
  \/ \E r \in DOMAIN req : GetCategories(r)
  \/ \E r \in DOMAIN req : GetAllCategories(r)
  \/ \E r \in DOMAIN req : FindAll(r)
  \/ \E r \in DOMAIN req : PostCategory(r)
  \/ \E r \in DOMAIN req : TechnologyFindOne(r)
  \/ \E r \in DOMAIN req : TechnologyInsertOne(r)
  \/ \E r \in DOMAIN req : PostDocumentation(r)
  \/ \E r \in DOMAIN req : DocumentationInsertOne(r)
  \/ \E r \in DOMAIN req : GetCategoryLive(r)
  \/ \E r \in DOMAIN req : CategoryFindCategories(r)
  \/ \E r \in DOMAIN req : GetCategoryHardcoded(r)
  \/ \E r \in DOMAIN req : CategoryFind(r)
  \/ \E r \in DOMAIN req : PutDocumentation(r)
  \/ \E r \in DOMAIN req : PutUpdateOne(r)
  \/ \E r \in DOMAIN req : GetDocumentation(r)
  \/ \E r \in DOMAIN req : DocumentationFindOne(r)
  \/ \E r \in DOMAIN req : GetMongoClient(r)
  \/ \E r \in DOMAIN req : Finally(r)
  \/ \E r \in DOMAIN req : Release(r)

Spec == Init /\ [][Next]_vars

\* MaxReq clients call POST /add/category of src/routes/index.js at the same
\* time, one request each, on a store that is empty or that an earlier upsert
\* has filled.
InitRace ==
  /\ rev = "index"
  /\ \/ /\ categories = <<>>
        /\ submitted = [m \in CatNames |-> {}]
     \/ \E n \in CatNames, q \in SeqsUpTo(Names, MaxSubs) :
          /\ categories = <<[name |-> n, subcategories |-> q]>>
          /\ submitted = [m \in CatNames |-> IF m = n THEN Range(q) ELSE {}]
  /\ documentation = <<>>
  /\ technologies = <<>>
  /\ connections = 0
  /\ req = [r \in 1..MaxReq |-> Idle]
  /\ created = <<>>
  /\ updated = {}

NextRace ==
  \/ \E r \in DOMAIN req : AddCategoryMerge(r)
  \/ \E r \in DOMAIN req : MergeFindOne(r)
  \/ \E r \in DOMAIN req : MergeWrite(r)
  \/ \E r \in DOMAIN req : GetMongoClient(r)
  \/ \E r \in DOMAIN req : Finally(r)

SpecRace == InitRace /\ [][NextRace]_vars

\* ------------------------------------------------------------ observations
Slots == DOMAIN req
Done(r, route) == req[r].route = route /\ req[r].pc = "done"
\* The request failed on the database: no connection, or a call that rejected.
StorageError(resp) ==
  resp.status = 500 /\ resp.error \in {"MongoError", "MongoDB connection failed"}
\* This step sends the response of request r.
Responds(r) == req[r].resp = Undef /\ req'[r].resp # Undef

\* The subcategories stored under a name, as a set, and the number of documents
\* of the collection with that name.
StoredSubs(coll, name) ==
  UNION {Range(coll[i].subcategories) : i \in {j \in DOMAIN coll : coll[j].name = name}}
CountOf(coll, name) == Cardinality({i \in DOMAIN coll : coll[i].name = name})

\* GET /category of either revision, on any store the other handlers can have
\* left: at most one category (the live list is read in "index" only), and up to
\* MaxStored documents as POST /documentation inserts them.
DocumentsOf(bodies) ==
  [i \in DOMAIN bodies |->
     [f \in DOMAIN NewDoc(bodies[i]) \cup {"_id"} |->
        IF f = "_id" THEN i ELSE NewDoc(bodies[i])[f]]]

InitQuery ==
  /\ rev \in Revisions
  /\ \/ categories = <<>>
     \/ /\ rev = "index"
        /\ \E n \in CatNames, q \in SeqsUpTo(Names, MaxSubs) :
             categories = <<[name |-> n, subcategories |-> q]>>
  /\ submitted = [n \in CatNames |-> StoredSubs(categories, n)]
  /\ created \in SeqsUpTo({b \in DocumentBodies : FirstMissing(b, requiredFields) = ""},
                          MaxStored)
  /\ documentation = DocumentsOf(created)
  /\ technologies = <<>>
  /\ connections = 0
  /\ req = [r \in {1} |-> Idle]
  /\ updated = {}

NextQuery ==
  \/ \E r \in DOMAIN req : GetCategoryLive(r)
  \/ \E r \in DOMAIN req : CategoryFindCategories(r)
  \/ \E r \in DOMAIN req : GetCategoryHardcoded(r)
  \/ \E r \in DOMAIN req : CategoryFind(r)
  \/ \E r \in DOMAIN req : GetMongoClient(r)
  \/ \E r \in DOMAIN req : Finally(r)
  \/ \E r \in DOMAIN req : Release(r)

SpecQuery == InitQuery /\ [][NextQuery]_vars

\* ------------------------------------------------------------------- claims
\* C1: merge upserts served one after the other keep, under each name, exactly
\* the union of the subcategory lists submitted so far (in one document), and
\* each answers addedSubcategories = the submitted ones not stored before it.
C1_MergeUnion ==
  /\ [](rev = "index" =>
          \A n \in CatNames :
            /\ CountOf(categories, n) <= 1
            /\ StoredSubs(categories, n) = submitted[n])
  /\ [][\A r \in Slots :
          (/\ Responds(r)
           /\ req'[r].route = "POST /add/category (merge)"
           /\ req'[r].resp.status = 200)
          => LET n == req[r].body.name.s
                 subs == Range(req[r].body.subcategories.a)
             IN  /\ Range(req'[r].resp.addedSubcategories)
                      = subs \ StoredSubs(categories, n)
                 /\ StoredSubs(categories', n) = StoredSubs(categories, n) \cup subs]_vars

\* {A,B} was stored, {B,C} is upserted: {A,B,C} is stored and only C is reported.
C1_Witness ==
  \E r \in Slots :
    /\ Done(r, "POST /add/category (merge)")
    /\ req[r].resp.status = 200
    /\ req[r].local = Arr(<<"mongodb", "MongoDB">>)
    /\ req[r].body.subcategories = Arr(<<"MongoDB", "mysql">>)
    /\ req[r].resp.addedSubcategories = <<"mysql">>
    /\ StoredSubs(categories, req[r].body.name.s) = {"mongodb", "MongoDB", "mysql"}

\* C2: the server has exactly the connections of the requests that hold an open
\* client, at most one per request; a finished request holds none: it closed the
\* one it opened (every 200, 201, 404 and 409, and the 500 of a failed database
\* call), or it never opened one and answered 400 or 500; a failed connection
\* attempt leaves nothing to close and answers 500.
C2_ConnectionsReleased ==
  /\ connections = Cardinality({r \in Slots : req[r].client = "open"})
  /\ \A r \in Slots :
       /\ req[r].client = "open" => InFlight(r)
       /\ req[r].pc = "done" =>
            /\ req[r].client \in {"undefined", "closed"}
            /\ req[r].client = "undefined" => req[r].resp.status \in {400, 500}
            /\ req[r].resp.status \in {200, 201, 404, 409} => req[r].client = "closed"
            /\ (req[r].resp.status = 500 /\ req[r].resp.error = "MongoError")
                 => req[r].client = "closed"
            /\ (req[r].resp.status = 500
                  /\ req[r].resp.error = "MongoDB connection failed")
                 => req[r].client = "undefined"
  /\ (\A r \in Slots : ~InFlight(r)) => connections = 0

\* A storage error after the connection was opened: answered 500, client closed.
C2_Witness ==
  \E r \in Slots :
    /\ req[r].pc = "done"
    /\ req[r].resp.status = 500
    /\ req[r].resp.error = "MongoError"
    /\ req[r].client = "closed"
    /\ connections = 0

Absent(body) == {f \in Range(requiredFields) : body[f] = Undef}
\* Those that are missing or falsy (the empty string).
Falsy(body) == {f \in Range(requiredFields) : ~Truthy(body[f])}

C5_NotFound ==
  \A r \in Slots :
    (/\ Done(r, "PUT /documentation/:id")
     /\ isValid(req[r].body.id)
     /\ req[r].body.id.oid \notin DOMAIN documentation
     /\ Keys(req[r].body.body) # {}
     /\ ~StorageError(req[r].resp))
    => req[r].resp.status = 404

\* C6 as stated: a body whose other required fields are given and whose tags is
\* absent or not an array is accepted, and stored with tags = [].
C6_Original ==
  \A r \in Slots :
    (/\ Done(r, "POST /documentation")
     /\ Falsy(req[r].body) \subseteq {"tags"}
     /\ ~IsArray(req[r].body.tags)
     /\ ~StorageError(req[r].resp))
    => /\ req[r].resp.status = 201
       /\ documentation[req[r].resp.documentId].tags = Arr(<<>>)

\* C6, amended: an accepted body without url is stored with url = '', an
\* accepted body whose tags is not an array is stored with tags = []; a body
\* whose tags is absent is not accepted: it is answered 400 naming tags (when
\* the fields before it are given).
C6_Defaults ==
  \A r \in Slots :
    Done(r, "POST /documentation")
    => /\ req[r].resp.status = 201 =>
            LET doc == documentation[req[r].resp.documentId]
            IN  /\ req[r].body.url = Undef => doc.url = Str("")
                /\ req[r].body.url # Undef => doc.url = req[r].body.url
                /\ ~IsArray(req[r].body.tags) => doc.tags = Arr(<<>>)
                /\ IsArray(req[r].body.tags) => doc.tags = req[r].body.tags
       /\ (req[r].body.tags = Undef /\ Falsy(req[r].body) = {"tags"}) =>
            /\ req[r].resp.status = 400
            /\ req[r].resp.field = "tags"
            /\ req[r].client = "undefined"

\* No url, tags a string: accepted, stored with url = '' and tags = [].
C6_Witness ==
  \E r \in Slots :
    /\ Done(r, "POST /documentation")
    /\ req[r].resp.status = 201
    /\ req[r].body.url = Undef
    /\ req[r].body.tags = Str("db")
    /\ documentation[req[r].resp.documentId].url = Str("")
    /\ documentation[req[r].resp.documentId].tags = Arr(<<>>)

documentFields == {"title", "description", "url", "category", "tags", "status"}

\* A GET /documentation/:id that finished, for a document POST /documentation
\* created and no PUT has matched since.
Fetched(r) ==
  /\ Done(r, "GET /documentation/:id")
  /\ isValid(req[r].body.id)
  /\ req[r].body.id.oid \in DOMAIN created
  /\ req[r].body.id.oid \notin updated
  /\ ~StorageError(req[r].resp)

\* C7 as stated: the fetched document has, in every field the body gave, the
\* value the body gave.
C7_Original ==
  \A r \in Slots :
    Fetched(r)
    => /\ req[r].resp.status = 200
       /\ \A f \in documentFields :
            created[req[r].body.id.oid][f] # Undef
            => req[r].resp.json[f] = created[req[r].body.id.oid][f]

\* C7, amended: the fetched document has the submitted title, description,
\* category and status, whatever the status; its url is the submitted one, or ''
\* when none was submitted; its tags are the submitted ones when they were an
\* array, and [] otherwise.
C7_RoundTrip ==
  \A r \in Slots :
    Fetched(r)
    => LET body == created[req[r].body.id.oid]
           doc == req[r].resp.json
       IN  /\ req[r].resp.status = 200
           /\ doc._id = req[r].body.id.oid
           /\ \A f \in {"title", "description", "category", "status"} : doc[f] = body[f]
           /\ doc.url = IF body.url = Undef THEN Str("") ELSE body.url
           /\ doc.tags = IF IsArray(body.tags) THEN body.tags ELSE Arr(<<>>)

\* A draft whose tags were submitted as a string is fetched, second of two.
C7_Witness ==
  \E r \in Slots :
    /\ Fetched(r)
    /\ req[r].body.id.oid = 2
    /\ created[2].tags = Str("db")
    /\ created[2].status = Str("draft")
    /\ created[1] # created[2]
    /\ req[r].resp.status = 200
    /\ req[r].resp.json.tags = Arr(<<>>)

\* C8: served one after the other, POST /category never stores two technologies
\* with the same name or the same label: a request whose lowercased name or
\* whose label is that of a stored technology is answered 409 (unless the
\* storage fails) and the collection stays as it is.
C8_UniqueTechnologies ==
  /\ [](\A i, j \in DOMAIN technologies :
          i # j => /\ technologies[i].name # technologies[j].name
                   /\ technologies[i].label # technologies[j].label)
  /\ [][\A r \in Slots :
          (/\ Responds(r)
           /\ req'[r].route = "POST /category"
           /\ IsString(req'[r].body.name)
           /\ Truthy(req'[r].body.name)
           /\ Truthy(req'[r].body.label)
           /\ \E i \in DOMAIN technologies :
                \/ technologies[i].name = toLowerCase(req'[r].body.name.s)
                \/ technologies[i].label = req'[r].body.label.s)
          => /\ req'[r].resp.status = 409 \/ StorageError(req'[r].resp)
             /\ technologies' = technologies]_vars

\* 'node' is stored; 'Node' under another label is answered 409 for its name.
C8_Witness ==
  \E r \in Slots :
    /\ Done(r, "POST /category")
    /\ req[r].body.name = Str("Node")
    /\ req[r].resp.status = 409
    /\ req[r].resp.existingTechnology.name = "node"
    /\ req[r].resp.existingTechnology.label # req[r].body.label.s
    /\ Len(technologies) = 1

\* C9: under the overwrite upsert no name is stored twice, and once an upsert is
\* answered 200 the one category of its name holds exactly the list it
\* submitted, whatever was stored before.
C9_Overwrite ==
  rev = "part0" =>
    /\ \A n \in CatNames : CountOf(categories, n) <= 1
    /\ \A r \in Slots :
         (Done(r, "POST /add/category (overwrite)") /\ req[r].resp.status = 200)
         => /\ CountOf(categories, req[r].body.name.s) = 1
            /\ categories[IndexOf(categories, req[r].body.name.s)].subcategories
                 = req[r].body.subcategories.a

\* The category existed with another list and now holds exactly {B,C}.
C9_Witness ==
  \E r \in Slots :
    /\ Done(r, "POST /add/category (overwrite)")
    /\ req[r].resp.status = 200
    /\ req[r].local.matchedCount = 1
    /\ req[r].local.modifiedCount = 1
    /\ req[r].body.subcategories = Arr(<<"MongoDB", "mysql">>)
    /\ categories = <<[name |-> req[r].body.name.s, subcategories |-> <<"MongoDB", "mysql">>]>>

\* Request r was answered 200 by the merge upsert for an existing category and
\* reported subcategory x as added, and x is not stored under that name.
Lost(r, x) ==
  /\ Done(r, "POST /add/category (merge)")
  /\ req[r].resp.status = 200
  /\ req[r].local # Undef
  /\ x \in Range(req[r].resp.addedSubcategories)
  /\ x \notin StoredSubs(categories, req[r].body.name.s)

\* C10: with overlapping merge upserts a reported subcategory can be missing
\* from the store (C10_Witness), and it is missing only through the race: some
\* other upsert of the same name wrote it away, having read the category before
\* the reported one was written (its findOne result does not hold it).
C10_LostOnlyByRace ==
  \A r \in Slots : \A x \in Names :
    Lost(r, x)
    => \E q \in Slots \ {r} :
         /\ req[q].route = "POST /add/category (merge)"
         /\ req[q].pc \in {"finally", "done"}
         /\ req[q].resp.status = 200
         /\ req[q].body.name = req[r].body.name
         /\ req[q].local # Undef
         /\ x \notin Range(req[q].local.a)

\* Both requests found the category and were answered 200; one reported a
\* subcategory that the store does not hold.
C10_Witness ==
  \E r, q \in Slots : \E x \in Names :
    /\ r # q
    /\ Lost(r, x)
    /\ Done(q, "POST /add/category (merge)")
    /\ req[q].resp.status = 200
    /\ req[q].local # Undef
    /\ req[q].body.name = req[r].body.name
    /\ connections = 0

=============================================================================
